---- MODULE Spec2Model ----
(***************************************************************************)
(* A model of lava-file: the typed wrapper layer over the host runtime's   *)
(* filesystem calls (src/src/FileSystem.ts, src/src/ItemType.ts and the    *)
(* FileItemHandle class).                                                  *)
(*                                                                         *)
(* Strings.  A path string is modelled by the sequence of pieces that      *)
(* String.split(sep) returns for it: "/a/b" is <<"", "a", "b">>, "/" is    *)
(* <<"", "">>, "./a" is <<".", "a">>, "a" is <<"a">> and the empty string  *)
(* is <<"">>.  split is a bijection between strings and non-empty          *)
(* sequences of separator-free pieces, so nothing of the string is lost:   *)
(* str.includes(sep) is Len(str) > 1, a + "/" + b is a \o b.               *)
(***************************************************************************)
EXTENDS Integers, Sequences, FiniteSets, TLC

VARIABLES
    fs,        \* the OS file tree: location (sequence of names) -> node
    items,     \* the program's entry objects: id -> [type, path] or NoItem
    last,      \* what the last call did: operation, arguments, outcome, OS calls
    steps,     \* number of calls made so far
    h,         \* the scoped-open state machine (open / callback / close)
    q,         \* one classification: a mode word, a path and what getItem made
    gc         \* one Directory.getChildren call: listing, child reads, result

vars == <<fs, items, last, steps, h, q, gc>>

-----------------------------------------------------------------------------
(* ItemType.ts: the seven type tags are the S_IF* constants of fs.constants *)

S_IFMT == 61440
S_IFIFO == 4096
S_IFCHR == 8192
S_IFDIR == 16384
S_IFBLK == 24576
S_IFREG == 32768
S_IFLNK == 40960
S_IFSOCK == 49152

BlockDevice == S_IFBLK
CharacterDevice == S_IFCHR
Directory == S_IFDIR
FIFO == S_IFIFO
File == S_IFREG
Socket == S_IFSOCK
SymbolicLink == S_IFLNK

ItemType == {BlockDevice, CharacterDevice, Directory, FIFO, File, Socket, SymbolicLink}

FileLikeTypes == {BlockDevice, CharacterDevice, FIFO, File, Socket}

-----------------------------------------------------------------------------
(* The 'path' module of the runtime (POSIX flavour), as the code imports it *)

\* the working directory of the process (process.cwd()), as a string and as
\* a location of the tree
cwd == <<"", "w">>

cwdLoc == <<"w">>

isAbsolute(p) == Len(p) > 1 /\ p[1] = ""

Last(s) == s[Len(s)]

Front(s) == SubSeq(s, 1, Len(s) - 1)

\* normalizeString: drops empty and "." pieces, lets ".." remove the piece
\* before it; above the top ".." is kept only when allowAboveRoot.
RECURSIVE normalizeString(_, _, _)
normalizeString(toks, allowAboveRoot, acc) ==
    IF toks = <<>> THEN acc
    ELSE LET t == Head(toks)
             rest == Tail(toks)
         IN  IF t = "" \/ t = "."
             THEN normalizeString(rest, allowAboveRoot, acc)
             ELSE IF t = ".."
             THEN IF Len(acc) > 0 /\ Last(acc) # ".."
                  THEN normalizeString(rest, allowAboveRoot, Front(acc))
                  ELSE IF allowAboveRoot
                       THEN normalizeString(rest, allowAboveRoot, Append(acc, ".."))
                       ELSE normalizeString(rest, allowAboveRoot, acc)
             ELSE normalizeString(rest, allowAboveRoot, Append(acc, t))

\* the string "/" + join(names, "/")
AbsString(names) == IF names = <<>> THEN <<"", "">> ELSE <<"">> \o names

\* path.normalize
normalize(p) ==
    IF p = <<"">> THEN <<".">>
    ELSE LET abs == isAbsolute(p)
             trailing == Len(p) > 1 /\ Last(p) = ""
             body == normalizeString(p, ~abs, <<>>)
         IN  IF body = <<>>
             THEN IF abs THEN <<"", "">>
                  ELSE IF trailing THEN <<".", "">> ELSE <<".">>
             ELSE (IF abs THEN <<"">> ELSE <<>>) \o body
                  \o (IF trailing THEN <<"">> ELSE <<>>)

\* path.resolve(a, b): from the right, pieces are put in front until the path
\* is absolute, with the process working directory as the last resort
resolve(a, b) ==
    LET joined == IF isAbsolute(b) THEN b
                  ELSE IF isAbsolute(a) THEN a \o b
                  ELSE cwd \o a \o b
    IN  AbsString(normalizeString(joined, FALSE, <<>>))

\* index of the last non-empty piece of p (0 when every piece is empty)
RECURSIVE LastNonEmpty(_, _)
LastNonEmpty(p, i) ==
    IF i = 0 THEN 0
    ELSE IF p[i] # "" THEN i ELSE LastNonEmpty(p, i - 1)

\* path.dirname
dirname(p) ==
    IF p = <<"">> THEN <<".">>
    ELSE LET hasRoot == isAbsolute(p)
             k == LastNonEmpty(p, Len(p))
         IN  IF k = 0 THEN <<"", "">>
             ELSE IF k = 1 THEN <<".">>
             ELSE IF k = 2 /\ hasRoot THEN <<"", "">>
             ELSE IF k = 3 /\ hasRoot /\ p[2] = "" THEN <<"", "", "">>
             ELSE SubSeq(p, 1, k - 1)

\* path.basename (no extension argument)
basename(p) ==
    LET k == LastNonEmpty(p, Len(p))
    IN  IF k = 0 THEN <<"">> ELSE <<p[k]>>

\* path.relative(from, to), both made absolute first
RECURSIVE CommonLen(_, _)
CommonLen(a, b) ==
    IF a = <<>> \/ b = <<>> \/ Head(a) # Head(b) THEN 0
    ELSE 1 + CommonLen(Tail(a), Tail(b))

relative(from, to) ==
    LET f == normalizeString(resolve(<<"">>, from), FALSE, <<>>)
        t == normalizeString(resolve(<<"">>, to), FALSE, <<>>)
        c == CommonLen(f, t)
        ups == [i \in 1..(Len(f) - c) |-> ".."]
        out == ups \o SubSeq(t, c + 1, Len(t))
    IN  IF out = <<>> THEN <<"">> ELSE out

-----------------------------------------------------------------------------
(* The operating system behind fs.promises: a tree of nodes.  A location   *)
(* is the sequence of names from the root (the root is <<>>).              *)

DirNode == [type |-> S_IFDIR, data |-> <<>>, target |-> <<>>]

FileNode(t, d) == [type |-> t, data |-> d, target |-> <<>>]

LinkNode(tg) == [type |-> S_IFLNK, data |-> <<>>, target |-> tg]

\* how many symbolic links one path lookup follows before ELOOP
MaxSymlinkHops == 2

Exists(f, loc) == loc \in DOMAIN f

IsDir(f, loc) == Exists(f, loc) /\ f[loc].type = S_IFDIR

Parent(loc) == IF loc = <<>> THEN <<>> ELSE Front(loc)

IsPrefix(a, b) == Len(a) <= Len(b) /\ SubSeq(b, 1, Len(a)) = a

Children(f, loc) == {l \in DOMAIN f : Len(l) = Len(loc) + 1 /\ IsPrefix(loc, l)}

Ok(loc) == [err |-> "OK", loc |-> loc]

Fail(e) == [err |-> e, loc |-> <<>>]

\* Path lookup without following a symbolic link in the final component.
RECURSIVE Walk(_, _, _, _)
Walk(f, cur, toks, hops) ==
    IF toks = <<>> THEN Ok(cur)
    ELSE IF ~Exists(f, cur) THEN Fail("ENOENT")
    ELSE IF ~IsDir(f, cur) THEN Fail("ENOTDIR")
    ELSE LET t == Head(toks)
             rest == Tail(toks)
             nxt == Append(cur, t)
         IN  IF t = "" \/ t = "." THEN Walk(f, cur, rest, hops)
             ELSE IF t = ".." THEN Walk(f, Parent(cur), rest, hops)
             ELSE IF rest = <<>> THEN Ok(nxt)
             ELSE IF Exists(f, nxt) /\ f[nxt].type = S_IFLNK
             THEN IF hops = 0 THEN Fail("ELOOP")
                  ELSE Walk(f, IF isAbsolute(f[nxt].target) THEN <<>> ELSE cur,
                            f[nxt].target \o rest, hops - 1)
             ELSE Walk(f, nxt, rest, hops)

Lookup(f, p) ==
    IF p = <<"">> THEN Fail("ENOENT")
    ELSE Walk(f, IF isAbsolute(p) THEN <<>> ELSE cwdLoc, p, MaxSymlinkHops)

\* Path lookup that follows a symbolic link in the final component too.
RECURSIVE Follow(_, _, _)
Follow(f, r, hops) ==
    IF r.err # "OK" THEN r
    ELSE IF ~Exists(f, r.loc) THEN Fail("ENOENT")
    ELSE IF f[r.loc].type # S_IFLNK THEN r
    ELSE IF hops = 0 THEN Fail("ELOOP")
    ELSE LET tg == f[r.loc].target
         IN  IF tg = <<"">> THEN Fail("ENOENT")
             ELSE Follow(f, Walk(f, IF isAbsolute(tg) THEN <<>> ELSE Parent(r.loc),
                                 tg, MaxSymlinkHops), hops - 1)

LookupFollow(f, p) == Follow(f, Lookup(f, p), MaxSymlinkHops)

\* the tree with the subtree at old moved to new (new's old subtree dropped)
MoveTree(f, old, new) ==
    LET kept == {l \in DOMAIN f : ~IsPrefix(old, l) /\ ~IsPrefix(new, l)}
        moved == {new \o SubSeq(l, Len(old) + 1, Len(l)) : l \in {x \in DOMAIN f : IsPrefix(old, x)}}
    IN  [l \in kept \cup moved |->
            IF l \in moved
            THEN f[old \o SubSeq(l, Len(new) + 1, Len(l))]
            ELSE f[l]]

\* rename(2): the error code it ends with
RenameErr(f, oldp, newp) ==
    LET o == Lookup(f, oldp)
        n == Lookup(f, newp)
    IN  IF o.err # "OK" THEN o.err
        ELSE IF ~Exists(f, o.loc) THEN "ENOENT"
        ELSE IF n.err # "OK" THEN n.err
        ELSE IF o.loc = <<>> \/ n.loc = <<>> THEN "EBUSY"
        ELSE IF o.loc = n.loc THEN "OK"
        ELSE IF IsDir(f, o.loc) /\ IsPrefix(o.loc, n.loc) THEN "EINVAL"
        ELSE IF ~Exists(f, n.loc) THEN "OK"
        ELSE IF IsDir(f, o.loc)
             THEN IF ~IsDir(f, n.loc) THEN "ENOTDIR"
                  ELSE IF Children(f, n.loc) # {} THEN "ENOTEMPTY"
                  ELSE "OK"
             ELSE IF IsDir(f, n.loc) THEN "EISDIR" ELSE "OK"

\* promises.rename(oldp, newp); denied: the OS refuses for a reason of its
\* own (permissions, a cross-device move)
OsRename(f, oldp, newp, denied) ==
    LET e == RenameErr(f, oldp, newp)
        o == Lookup(f, oldp).loc
        n == Lookup(f, newp).loc
    IN  IF e # "OK" THEN [err |-> e, fs |-> f]
        ELSE IF denied THEN [err |-> "EACCES", fs |-> f]
        ELSE IF o = n THEN [err |-> "OK", fs |-> f]
        ELSE [err |-> "OK", fs |-> MoveTree(f, o, n)]

\* promises.mkdir(p) without the recursive option
OsMkdir(f, p, denied) ==
    LET n == Lookup(f, p)
    IN  IF n.err # "OK" THEN [err |-> n.err, fs |-> f]
        ELSE IF Exists(f, n.loc) THEN [err |-> "EEXIST", fs |-> f]
        ELSE IF denied THEN [err |-> "EACCES", fs |-> f]
        ELSE [err |-> "OK", fs |-> (n.loc :> DirNode) @@ f]

\* stat in place of lstat: the mode word of the entry a symbolic link leads to
OsLstat_FollowsLink(f, p, perm) ==
    LET n == LookupFollow(f, p)
    IN  IF n.err # "OK" THEN [err |-> n.err, mode |-> 0]
        ELSE IF ~Exists(f, n.loc) THEN [err |-> "ENOENT", mode |-> 0]
        ELSE [err |-> "OK", mode |-> f[n.loc].type + perm]

\* promises.lstat(p): the mode word of the entry itself, its file-type
\* field and its permission bits
OsLstat(f, p, perm) ==
    LET n == Lookup(f, p)
    IN  IF n.err # "OK" THEN [err |-> n.err, mode |-> 0]
        ELSE IF ~Exists(f, n.loc) THEN [err |-> "ENOENT", mode |-> 0]
        ELSE [err |-> "OK", mode |-> f[n.loc].type + perm]

\* promises.copyFile(src, dest): opens src for reading, dest for writing
OsCopyFile(f, src, dest, denied) ==
    LET s == LookupFollow(f, src)
        d0 == Lookup(f, dest)
        d == IF d0.err = "OK" /\ Exists(f, d0.loc) THEN Follow(f, d0, MaxSymlinkHops) ELSE d0
    IN  IF s.err # "OK" THEN [err |-> s.err, fs |-> f]
        ELSE IF IsDir(f, s.loc) THEN [err |-> "EISDIR", fs |-> f]
        ELSE IF d.err # "OK" THEN [err |-> d.err, fs |-> f]
        ELSE IF IsDir(f, d.loc) THEN [err |-> "EISDIR", fs |-> f]
        ELSE IF denied THEN [err |-> "EACCES", fs |-> f]
        ELSE [err |-> "OK",
              fs |-> (d.loc :> FileNode(S_IFREG, f[s.loc].data)) @@ f]

\* promises.readlink(p)
OsReadlink(f, p) ==
    LET n == Lookup(f, p)
    IN  IF n.err # "OK" THEN [err |-> n.err, target |-> <<>>]
        ELSE IF ~Exists(f, n.loc) THEN [err |-> "ENOENT", target |-> <<>>]
        ELSE IF f[n.loc].type # S_IFLNK THEN [err |-> "EINVAL", target |-> <<>>]
        ELSE [err |-> "OK", target |-> f[n.loc].target]

\* promises.symlink(target, p)
OsSymlink(f, tg, p, denied) ==
    LET n == Lookup(f, p)
    IN  IF n.err # "OK" THEN [err |-> n.err, fs |-> f]
        ELSE IF Exists(f, n.loc) THEN [err |-> "EEXIST", fs |-> f]
        ELSE IF denied THEN [err |-> "EACCES", fs |-> f]
        ELSE [err |-> "OK", fs |-> (n.loc :> LinkNode(tg)) @@ f]

\* the entries an opened directory yields when iterated: (name, d_type)
OsReaddir(f, p) ==
    LET n == LookupFollow(f, p)
    IN  IF n.err # "OK" THEN [err |-> n.err, ents |-> {}]
        ELSE IF ~IsDir(f, n.loc) THEN [err |-> "ENOTDIR", ents |-> {}]
        ELSE [err |-> "OK",
              ents |-> {[name |-> Last(l), type |-> f[l].type] : l \in Children(f, n.loc)}]

\* Path lookup for a file that is opened: a symbolic link in the final
\* component is followed, and the place it leads to may be empty
RECURSIVE FollowOpen(_, _, _)
FollowOpen(f, r, hops) ==
    IF r.err # "OK" THEN r
    ELSE IF ~Exists(f, r.loc) THEN r
    ELSE IF f[r.loc].type # S_IFLNK THEN r
    ELSE IF hops = 0 THEN Fail("ELOOP")
    ELSE LET tg == f[r.loc].target
         IN  IF tg = <<"">> THEN Fail("ENOENT")
             ELSE FollowOpen(f, Walk(f, IF isAbsolute(tg) THEN <<>> ELSE Parent(r.loc),
                                     tg, MaxSymlinkHops), hops - 1)

\* zeros(n): n zero bytes
zeros(n) == [k \in 1..n |-> 0]

\* writeFile with flag "a" in place of "w": the data is added at the end
OsWriteFile_Appends(f, p, data, flag, denied) ==
    LET n == Lookup(f, p)
        t == FollowOpen(f, n, MaxSymlinkHops)
    IN  IF n.err # "OK" THEN [err |-> n.err, fs |-> f]
        ELSE IF flag = "wx" /\ Exists(f, n.loc) THEN [err |-> "EEXIST", fs |-> f]
        ELSE IF t.err # "OK" THEN [err |-> t.err, fs |-> f]
        ELSE IF IsDir(f, t.loc) THEN [err |-> "EISDIR", fs |-> f]
        ELSE IF denied THEN [err |-> "EACCES", fs |-> f]
        ELSE IF Exists(f, t.loc)
        THEN [err |-> "OK", fs |-> [f EXCEPT ![t.loc].data = @ \o data]]
        ELSE [err |-> "OK", fs |-> (t.loc :> FileNode(S_IFREG, data)) @@ f]

\* promises.writeFile(p, data, {flag}): flag "w" (the default) creates the
\* file or empties the one that is there; flag "wx" fails if the path exists
OsWriteFile(f, p, data, flag, denied) ==
    LET n == Lookup(f, p)
        t == FollowOpen(f, n, MaxSymlinkHops)
    IN  IF n.err # "OK" THEN [err |-> n.err, fs |-> f]
        ELSE IF flag = "wx" /\ Exists(f, n.loc) THEN [err |-> "EEXIST", fs |-> f]
        ELSE IF t.err # "OK" THEN [err |-> t.err, fs |-> f]
        ELSE IF IsDir(f, t.loc) THEN [err |-> "EISDIR", fs |-> f]
        ELSE IF denied THEN [err |-> "EACCES", fs |-> f]
        ELSE IF Exists(f, t.loc)
        THEN [err |-> "OK", fs |-> [f EXCEPT ![t.loc].data = data]]
        ELSE [err |-> "OK", fs |-> (t.loc :> FileNode(S_IFREG, data)) @@ f]

\* promises.readFile(p)
OsReadFile(f, p) ==
    LET t == LookupFollow(f, p)
    IN  IF t.err # "OK" THEN [err |-> t.err, data |-> <<>>]
        ELSE IF IsDir(f, t.loc) THEN [err |-> "EISDIR", data |-> <<>>]
        ELSE [err |-> "OK", data |-> f[t.loc].data]

\* promises.truncate(p, len): cut to len bytes, or filled up with zero bytes
OsTruncate(f, p, len, denied) ==
    LET t == LookupFollow(f, p)
        d == f[t.loc].data
    IN  IF t.err # "OK" THEN [err |-> t.err, fs |-> f]
        ELSE IF IsDir(f, t.loc) THEN [err |-> "EISDIR", fs |-> f]
        ELSE IF denied THEN [err |-> "EACCES", fs |-> f]
        ELSE [err |-> "OK",
              fs |-> [f EXCEPT ![t.loc].data =
                        IF len <= Len(d) THEN SubSeq(d, 1, len)
                        ELSE d \o zeros(len - Len(d))]]

\* promises.mkdir(p, {recursive: true}) from the directory cur on: missing
\* directories are made, one that is there already is no error
RECURSIVE MkdirP(_, _, _, _)
MkdirP(f, cur, toks, denied) ==
    IF toks = <<>> THEN [err |-> "OK", fs |-> f]
    ELSE LET t == Head(toks)
             rest == Tail(toks)
             nxt == Append(cur, t)
             tg == Follow(f, Ok(nxt), MaxSymlinkHops)
         IN  IF t = "" \/ t = "." THEN MkdirP(f, cur, rest, denied)
             ELSE IF t = ".." THEN MkdirP(f, Parent(cur), rest, denied)
             ELSE IF ~Exists(f, nxt)
             THEN IF denied THEN [err |-> "EACCES", fs |-> f]
                  ELSE MkdirP((nxt :> DirNode) @@ f, nxt, rest, denied)
             ELSE IF tg.err # "OK" THEN [err |-> tg.err, fs |-> f]
             ELSE IF ~IsDir(f, tg.loc)
             THEN [err |-> IF rest = <<>> THEN "EEXIST" ELSE "ENOTDIR", fs |-> f]
             ELSE MkdirP(f, tg.loc, rest, denied)

OsMkdirRecursive(f, p, denied) ==
    IF p = <<"">> THEN [err |-> "ENOENT", fs |-> f]
    ELSE MkdirP(f, IF isAbsolute(p) THEN <<>> ELSE cwdLoc, p, denied)

\* promises.mkdir(p, options)
OsMkdirWith(f, p, recursive, denied) ==
    IF recursive THEN OsMkdirRecursive(f, p, denied) ELSE OsMkdir(f, p, denied)

\* another actor removes the entry at loc (unlink, or rmdir of what is under it)
OsRemove(f, loc) == [l \in {x \in DOMAIN f : ~IsPrefix(loc, x)} |-> f[l]]

-----------------------------------------------------------------------------
(* FileSystem.ts: entries.  An entry object is [type, path]; a call ends   *)
(* with an outcome [err, fs, calls, item]: the error it rejects with       *)
(* ("OK" for none), the tree it leaves, the OS calls it issued and the     *)
(* entry it leaves or returns.  The bare `new Error()` of the code is the  *)
(* error "Error"; the three error classes are named as in the code.        *)

NoItem == [type |-> 0, path |-> <<>>]

Call(name, a, b, e) == [call |-> name, a |-> a, b |-> b, err |-> e]

Outcome(e, f, calls, it) == [err |-> e, fs |-> f, calls |-> calls, item |-> it]

\* FileSystemItem.constructor: the path is resolved against process.cwd()
NewItem(type, path) == [type |-> type, path |-> resolve(cwd, path)]

\* mode & constants.S_IFMT, for a 16 bit mode word
MaskIFMT(mode) == ((mode \div 4096) % 16) * 4096

\* the module's getItem(type, path): one constructor per type tag
getItem(type, path) ==
    CASE type = BlockDevice -> [err |-> "OK", item |-> NewItem(BlockDevice, path)]
      [] type = CharacterDevice -> [err |-> "OK", item |-> NewItem(CharacterDevice, path)]
      [] type = Directory -> [err |-> "OK", item |-> NewItem(Directory, path)]
      [] type = FIFO -> [err |-> "OK", item |-> NewItem(FIFO, path)]
      [] type = File -> [err |-> "OK", item |-> NewItem(File, path)]
      [] type = Socket -> [err |-> "OK", item |-> NewItem(Socket, path)]
      [] type = SymbolicLink -> [err |-> "OK", item |-> NewItem(SymbolicLink, path)]
      [] OTHER -> [err |-> "Error", item |-> NoItem]

\* FileSystem.getItem(path)
FileSystem_getItem(f, path, perm) ==
    LET s == OsLstat(f, path, perm)
        c == <<Call("lstat", path, <<>>, s.err)>>
    IN  IF s.err # "OK" THEN Outcome(s.err, f, c, NoItem)
        ELSE LET g == getItem(MaskIFMT(s.mode), path)
             IN  Outcome(g.err, f, c, g.item)

\* FileSystemItem.getParent: null at a root
getParent(it) ==
    LET dirPath == dirname(it.path)
    IN  IF it.path = dirPath THEN NoItem ELSE NewItem(Directory, dirPath)

\* rename with setPath before the OS rename is awaited
rename_SetPathFirst(f, it, newName, denied) ==
    LET notName == Len(normalize(newName)) > 1
        dir == dirname(it.path)
        newPath == resolve(dir, newName)
        r == OsRename(f, it.path, newPath, denied)
    IN  IF notName THEN Outcome("NotNameError", f, <<>>, it)
        ELSE Outcome(r.err, r.fs, <<Call("rename", it.path, newPath, r.err)>>,
                     [it EXCEPT !.path = newPath])

\* FileSystemItem.rename
rename(f, it, newName, denied) ==
    LET notName == Len(normalize(newName)) > 1
        dir == dirname(it.path)
        newPath == resolve(dir, newName)
        r == OsRename(f, it.path, newPath, denied)
    IN  IF notName THEN Outcome("NotNameError", f, <<>>, it)
        ELSE Outcome(r.err, r.fs, <<Call("rename", it.path, newPath, r.err)>>,
                     IF r.err = "OK" THEN [it EXCEPT !.path = newPath] ELSE it)

\* FileLikeItem.moveTo
FileLikeItem_moveTo(f, it, newPath, baseCwd, denied) ==
    LET np == IF ~baseCwd THEN resolve(dirname(it.path), newPath) ELSE newPath
        r == OsRename(f, it.path, np, denied)
    IN  Outcome(r.err, r.fs, <<Call("rename", it.path, np, r.err)>>,
                IF r.err = "OK" THEN [it EXCEPT !.path = np] ELSE it)

\* isSub with !== for < in its length test: only a path of the same depth
\* can then be found to be the same or nested
isSub_SameDepthOnly(parentPath, subPath) ==
    IF Len(subPath) # Len(parentPath) THEN FALSE
    ELSE \A i \in 1..Len(parentPath) : parentPath[i] = subPath[i]

\* Directory.isSub: piece by piece over split(sep)
isSub(parentPath, subPath) ==
    IF Len(subPath) < Len(parentPath) THEN FALSE
    ELSE \A i \in 1..Len(parentPath) : parentPath[i] = subPath[i]

\* Directory.moveTo
Directory_moveTo(f, it, newPath, baseCwd, denied) ==
    LET np == IF ~baseCwd THEN resolve(dirname(it.path), newPath)
              ELSE resolve(cwd, newPath)
        r == OsRename(f, it.path, np, denied)
    IN  IF isSub(it.path, np) THEN Outcome("CirculateError", f, <<>>, it)
        ELSE Outcome(r.err, r.fs, <<Call("rename", it.path, np, r.err)>>,
                     IF r.err = "OK" THEN [it EXCEPT !.path = np] ELSE it)

\* SymbolicLink.moveTo: hands the resolved path to rename
SymbolicLink_moveTo(f, it, newPath, baseCwd, denied) ==
    LET np == IF ~baseCwd THEN resolve(dirname(it.path), newPath) ELSE newPath
    IN  rename(f, it, np, denied)

\* moveTo of the entry's own class
moveTo(f, it, newPath, baseCwd, denied) ==
    IF it.type = Directory THEN Directory_moveTo(f, it, newPath, baseCwd, denied)
    ELSE IF it.type = SymbolicLink THEN SymbolicLink_moveTo(f, it, newPath, baseCwd, denied)
    ELSE FileLikeItem_moveTo(f, it, newPath, baseCwd, denied)

\* FileSystem.createDirectory(path) without options
FileSystem_createDirectory(f, path, denied) ==
    LET m == OsMkdir(f, path, denied)
        c == <<Call("mkdir", path, <<>>, m.err)>>
    IN  IF m.err # "OK" THEN Outcome(m.err, f, c, NoItem)
        ELSE Outcome("OK", m.fs, c, NewItem(Directory, path))

\* FileSystemItem.createSymbolicLink
createSymbolicLink(f, it, path, baseCwd, denied) ==
    LET p == IF ~baseCwd THEN resolve(dirname(it.path), path) ELSE path
        r == OsSymlink(f, it.path, p, denied)
        c == <<Call("symlink", it.path, p, r.err)>>
    IN  IF r.err # "OK" THEN Outcome(r.err, f, c, NoItem)
        ELSE Outcome("OK", r.fs, c, NewItem(SymbolicLink, p))

\* copy that makes the destination file but leaves it empty
FileLikeItem_copy_NoContent(f, it, dest, baseCwd, denied) ==
    LET d == IF ~baseCwd THEN resolve(dirname(it.path), dest) ELSE dest
        r == OsWriteFile(f, d, <<>>, "w", denied)
        c == <<Call("writeFile", d, <<>>, r.err)>>
        g == FileSystem_getItem(r.fs, d, 0)
    IN  IF r.err # "OK" THEN Outcome(r.err, f, c, NoItem)
        ELSE Outcome(g.err, r.fs, c \o g.calls, g.item)

\* FileLikeItem.copy
FileLikeItem_copy(f, it, dest, baseCwd, denied) ==
    LET d == IF ~baseCwd THEN resolve(dirname(it.path), dest) ELSE dest
        r == OsCopyFile(f, it.path, d, denied)
        c == <<Call("copyFile", it.path, d, r.err)>>
        g == FileSystem_getItem(r.fs, d, 0)
    IN  IF r.err # "OK" THEN Outcome(r.err, f, c, NoItem)
        ELSE Outcome(g.err, r.fs, c \o g.calls, g.item)

\* SymbolicLink.getItem: the link's target, resolved against the link's path
SymbolicLink_getItem(f, it) ==
    LET l == OsReadlink(f, it.path)
        c == <<Call("readlink", it.path, <<>>, l.err)>>
        path == resolve(it.path, l.target)
        g == FileSystem_getItem(f, path, 0)
    IN  IF l.err # "OK" THEN Outcome(l.err, f, c, NoItem)
        ELSE Outcome(g.err, f, c \o g.calls, g.item)

\* SymbolicLink.copy
SymbolicLink_copy(f, it, dest, baseCwd, denied) ==
    LET d == IF ~baseCwd THEN resolve(dirname(it.path), dest) ELSE dest
        g == SymbolicLink_getItem(f, it)
        r == createSymbolicLink(f, g.item, d, FALSE, denied)
    IN  IF g.err # "OK" THEN g
        ELSE Outcome(r.err, r.fs, g.calls \o r.calls, r.item)

\* Directory.copy, with the loop over the opened directory.  The order in
\* which the OS yields the children is not fixed, so a copy has a set of
\* possible outcomes.  "denied" is the OS refusing the first mkdir.
RECURSIVE Directory_copy(_, _, _, _, _), CopyChildren(_, _, _, _, _), CopyChild(_, _, _, _)
Directory_copy(f, it, dest, baseCwd, denied) ==
    LET d == IF ~baseCwd THEN resolve(dirname(it.path), dest) ELSE resolve(cwd, dest)
        m == FileSystem_createDirectory(f, d, denied)
        rd == OsReaddir(m.fs, it.path)
        c == m.calls \o <<Call("opendir", it.path, <<>>, rd.err)>>
    IN  IF isSub(it.path, d) THEN {Outcome("CirculateError", f, <<>>, NoItem)}
        ELSE IF m.err # "OK" THEN {m}
        ELSE IF rd.err # "OK" THEN {Outcome(rd.err, m.fs, c, NoItem)}
        ELSE {Outcome(o.err, o.fs, o.calls, IF o.err = "OK" THEN m.item ELSE NoItem) :
                o \in CopyChildren(m.fs, it, m.item, rd.ents, c)}

\* for await (let it of dir) { ... await it.copy(newPath) }
CopyChildren(f, src, destDir, ents, calls) ==
    IF ents = {} THEN {Outcome("OK", f, calls, NoItem)}
    ELSE UNION {
            UNION {
                IF o.err = "OK"
                THEN CopyChildren(o.fs, src, destDir, ents \ {e}, calls \o o.calls)
                ELSE {Outcome(o.err, o.fs, calls \o o.calls, NoItem)} :
                o \in CopyChild(f, src, destDir, e)} :
            e \in ents}

\* one turn of the loop: DirectoryItemHandle.getItem(dirent), then copy
CopyChild(f, src, destDir, e) ==
    LET g == getItem(e.type, resolve(src.path, <<e.name>>))
        relativePath == relative(src.path, g.item.path)
        newPath == resolve(destDir.path, relativePath)
    IN  IF g.err # "OK" THEN {Outcome(g.err, f, <<>>, NoItem)}
        ELSE IF g.item.type = Directory
        THEN Directory_copy(f, g.item, newPath, FALSE, FALSE)
        ELSE IF g.item.type = SymbolicLink
        THEN {SymbolicLink_copy(f, g.item, newPath, FALSE, FALSE)}
        ELSE {FileLikeItem_copy(f, g.item, newPath, FALSE, FALSE)}

\* FileSystem.getDirectory(path)
FileSystem_getDirectory(f, path, perm) ==
    LET g == FileSystem_getItem(f, path, perm)
    IN  IF g.err # "OK" THEN g
        ELSE IF g.item.type # Directory THEN Outcome("TypeNotMatchError", f, g.calls, NoItem)
        ELSE g

\* getFile without its type test
FileSystem_getFile_Unchecked(f, path, perm) == FileSystem_getItem(f, path, perm)

\* FileSystem.getFile(path)
FileSystem_getFile(f, path, perm) ==
    LET g == FileSystem_getItem(f, path, perm)
    IN  IF g.err # "OK" THEN g
        ELSE IF g.item.type # File THEN Outcome("TypeNotMatchError", f, g.calls, NoItem)
        ELSE g

\* FileSystem.createDirectory(path, options)
FileSystem_createDirectoryWith(f, path, recursive, denied) ==
    LET m == OsMkdirWith(f, path, recursive, denied)
        c == <<Call("mkdir", path, <<>>, m.err)>>
    IN  IF m.err # "OK" THEN Outcome(m.err, f, c, NoItem)
        ELSE Outcome("OK", m.fs, c, NewItem(Directory, path))

\* FileSystem.createFile(path, data, options): flag is options.flag, "w" when
\* no option is given
FileSystem_createFile(f, path, data, flag, denied) ==
    LET w == OsWriteFile(f, path, data, flag, denied)
        c == <<Call("writeFile", path, <<>>, w.err)>>
    IN  IF w.err # "OK" THEN Outcome(w.err, f, c, NoItem)
        ELSE Outcome("OK", w.fs, c, NewItem(File, path))

\* Directory.createSubFile(path, data)
createSubFile(f, it, path, data, flag, denied) ==
    LET pth == resolve(it.path, path)
        dirPath == dirname(pth)
        m == FileSystem_createDirectoryWith(f, dirPath, TRUE, denied)
        w == FileSystem_createFile(m.fs, pth, data, flag, denied)
    IN  IF m.err # "OK" THEN m
        ELSE Outcome(w.err, w.fs, m.calls \o w.calls, w.item)

\* FileLikeItem.read()
read(f, it) == OsReadFile(f, it.path)

\* FileLikeItem.write(data)
write(f, it, data, denied) == OsWriteFile(f, it.path, data, "w", denied)

\* FileLikeItem.truncate(len); len is 0 when it is not given
truncate(f, it, len, denied) == OsTruncate(f, it.path, len, denied)

\* copy of the entry's own class
copy(f, it, dest, baseCwd, denied) ==
    IF it.type = Directory THEN Directory_copy(f, it, dest, baseCwd, denied)
    ELSE IF it.type = SymbolicLink THEN {SymbolicLink_copy(f, it, dest, baseCwd, denied)}
    ELSE {FileLikeItem_copy(f, it, dest, baseCwd, denied)}

-----------------------------------------------------------------------------
(* The state machine of the entry operations *)

\* number of calls in one run
MaxOps == 3

\* the entry objects the program holds
Ids == {1, 2}

\* the tree the program starts on: /w is the working directory
InitFs ==
    (<<>> :> DirNode)
    @@ (<<"w">> :> DirNode)
    @@ (<<"w", "d">> :> DirNode)
    @@ (<<"w", "d", "sub">> :> DirNode)
    @@ (<<"w", "d", "f">> :> FileNode(S_IFREG, <<1>>))
    @@ (<<"w", "l">> :> LinkNode(<<"d", "f">>))

\* paths handed to FileSystem.getItem: "/", "d", "/w/d", "d/f", "l", "nope"
GetPaths ==
    {<<"", "">>, <<"d">>, <<"", "w", "d">>, <<"d", "f">>, <<"l">>, <<"nope">>}

\* names and destinations handed to rename, moveTo and copy:
\* "x", "./x", "d/../x", "..", ".", "", "../x", "/x", "./sub/x", "./d/sub/x"
Strings ==
    {<<"x">>, <<".", "x">>, <<"d", "..", "x">>, <<"..">>, <<".">>, <<"">>,
     <<"..", "x">>, <<"", "x">>, <<".", "sub", "x">>, <<".", "d", "sub", "x">>}

\* permission bits of a mode word
PermSet == {420, 4095}

NoLast ==
    [op |-> "none", id |-> 0, arg |-> <<>>, baseCwd |-> FALSE, denied |-> FALSE,
     err |-> "OK", calls |-> <<>>, before |-> NoItem, changed |-> FALSE,
     opt |-> "", data |-> <<>>, len |-> 0, ret |-> <<>>]

\* the record of a call: its arguments, the entry as it was before the call,
\* the outcome, whether the tree changed, the option it was given ("none", a
\* flag of writeFile, "recursive" of mkdir), the data and the length it was
\* given and the data it returned
Done(op, i, arg, baseCwd, denied, o, before, f) ==
    [op |-> op, id |-> i, arg |-> arg, baseCwd |-> baseCwd, denied |-> denied,
     err |-> o.err, calls |-> o.calls, before |-> before, changed |-> (o.fs # f),
     opt |-> "", data |-> <<>>, len |-> 0, ret |-> <<>>]

\* The scoped open of one entry, before it is called.  pc: where open() is;
\* kind: "file" for FileLikeItem.open, "dir" for Directory.open; isClosed: the
\* handle's flag; fdOpen: the OS descriptor is open; osCloses: close calls the
\* descriptor received; calls: close() calls made on the handle; noops: those
\* that returned at once because isClosed; pending: close() calls waiting for
\* the OS; finId: the close() call made by open itself; cb: the callback
\* ("none", "running", "ok", "err"); fin: the close made by open ("none",
\* "invoked", "ok", "err"); result: how the promise of open settled;
\* okCloses: close() calls that were fulfilled; lastRet: how the latest
\* close() call to return ended.  For reading a directory handle: dpath: the
\* path of the opened directory; rest: the dirents the stream has not given
\* yet; delivered: the entries read() and the iterators handed over, in order;
\* iters: the handle's iterators; reads: read() calls made; ret: how the
\* latest read() ended ("none", "item", "null" or the error).
NoIter == [type |-> 0, st |-> "none"]

\* iterators taken from one handle
IterIds == {1, 2}

InitH ==
    [pc |-> "idle", kind |-> "none", opened |-> FALSE, isClosed |-> FALSE,
     fdOpen |-> FALSE, osCloses |-> 0, calls |-> 0, noops |-> 0, pending |-> {},
     finId |-> 0, cb |-> "none", fin |-> "none", result |-> "pending",
     okCloses |-> 0, lastRet |-> "none",
     dpath |-> <<>>, rest |-> <<>>, delivered |-> <<>>,
     iters |-> [i \in IterIds |-> NoIter], reads |-> 0, ret |-> "none"]

\* Directory.getChildren before it is called.  pc: "idle", "listed" (readdir
\* answered, one FileSystem.getItem per dirent issued), "settled"; dir: the
\* entry it was called on; type: the type argument (0 for none); names: the
\* dirents in the order readdir gave them; got: per dirent, the outcome of its
\* getItem ("pending" until lstat answers); firstErr: the first rejection;
\* ext: changes another actor made to the tree since the listing; res: how
\* the promise settled
NoChildren ==
    [pc |-> "idle", dir |-> NoItem, type |-> 0, names |-> <<>>, got |-> <<>>,
     firstErr |-> "OK", ext |-> 0, res |-> [err |-> "pending", items |-> <<>>]]

NoQuery == [mode |-> 0, path |-> <<>>, done |-> FALSE, res |-> [err |-> "OK", item |-> NoItem]]

Init ==
    /\ fs = InitFs
    /\ items = [i \in Ids |-> NoItem]
    /\ last = NoLast
    /\ steps = 0
    /\ h = InitH
    /\ q = NoQuery
    /\ gc = NoChildren

\* let item = await FileSystem.getItem(p)
GetItem(i, p, perm) ==
    LET o == FileSystem_getItem(fs, p, perm)
    IN  /\ steps < MaxOps
        /\ steps' = steps + 1
        /\ items' = IF o.err = "OK" THEN [items EXCEPT ![i] = o.item] ELSE items
        /\ last' = Done("getItem", i, p, FALSE, FALSE, o, NoItem, fs)
        /\ UNCHANGED <<fs, h, q, gc>>

\* let parent = item.getParent()
GetParent(i, j) ==
    /\ steps < MaxOps
    /\ items[i] # NoItem
    /\ getParent(items[i]) # NoItem
    /\ steps' = steps + 1
    /\ items' = [items EXCEPT ![j] = getParent(items[i])]
    /\ last' = Done("getParent", j, <<>>, FALSE, FALSE, Outcome("OK", fs, <<>>, NoItem), items[i], fs)
    /\ UNCHANGED <<fs, h, q, gc>>

\* await item.rename(newName)
Rename(i, newName, denied) ==
    LET o == rename(fs, items[i], newName, denied)
    IN  /\ steps < MaxOps
        /\ items[i] # NoItem
        /\ steps' = steps + 1
        /\ fs' = o.fs
        /\ items' = [items EXCEPT ![i] = o.item]
        /\ last' = Done("rename", i, newName, FALSE, denied, o, items[i], fs)
        /\ UNCHANGED <<h, q, gc>>

\* await item.moveTo(newPath, baseCwd)
MoveTo(i, newPath, baseCwd, denied) ==
    LET o == moveTo(fs, items[i], newPath, baseCwd, denied)
    IN  /\ steps < MaxOps
        /\ items[i] # NoItem
        /\ steps' = steps + 1
        /\ fs' = o.fs
        /\ items' = [items EXCEPT ![i] = o.item]
        /\ last' = Done("moveTo", i, newPath, baseCwd, denied, o, items[i], fs)
        /\ UNCHANGED <<h, q, gc>>

\* let made = await item.copy(dest, baseCwd)
Copy(i, j, dest, baseCwd) ==
    /\ steps < MaxOps
    /\ items[i] # NoItem
    /\ i # j
    /\ \E o \in copy(fs, items[i], dest, baseCwd, FALSE) :
        /\ steps' = steps + 1
        /\ fs' = o.fs
        /\ items' = IF o.err = "OK" THEN [items EXCEPT ![j] = o.item] ELSE items
        /\ last' = Done("copy", i, dest, baseCwd, FALSE, o, items[i], fs)
    /\ UNCHANGED <<h, q, gc>>

Next ==
    \/ \E i \in Ids, p \in GetPaths, perm \in PermSet : GetItem(i, p, perm)
    \/ \E i, j \in Ids : GetParent(i, j)
    \/ \E i \in Ids, n \in Strings, denied \in BOOLEAN : Rename(i, n, denied)
    \/ \E i \in Ids, p \in Strings, b, denied \in BOOLEAN : MoveTo(i, p, b, denied)
    \/ \E i, j \in Ids, p \in Strings, b \in BOOLEAN : Copy(i, j, p, b)

Spec == Init /\ [][Next]_vars

-----------------------------------------------------------------------------
(* Claims about the entry operations *)

\* the location a path string names, "." and ".." taken away lexically
LocOf(p) == normalizeString(resolve(cwd, p), FALSE, <<>>)

\* the destination a call was given, resolved against its base: the entry's
\* parent directory, or the working directory when baseCwd
DestOf(l) ==
    IF l.baseCwd THEN resolve(cwd, l.arg)
    ELSE resolve(dirname(l.before.path), l.arg)

\* the last call was a copy or a move of a directory onto itself or into itself
CircularCall ==
    /\ last.op \in {"copy", "moveTo"}
    /\ last.before.type = Directory
    /\ IsPrefix(LocOf(last.before.path), LocOf(DestOf(last)))

\* C1: a directory copy or move whose destination is the directory itself or
\* lies under it fails with CirculateError and issues no OS call, so the tree
\* is as it was.
C1_CircularRejectedBeforeMutation ==
    CircularCall =>
        /\ last.err = "CirculateError"
        /\ last.calls = <<>>
        /\ ~last.changed

\* a step that calls moveTo(arg), default baseCwd, on an entry for an existing
\* directory that has a sub-directory sub
MoveOfDirWithSub(arg) ==
    /\ steps' = steps + 1
    /\ last'.op = "moveTo"
    /\ ~last'.baseCwd
    /\ last'.arg = arg
    /\ last'.before.type = Directory
    /\ IsDir(fs, LocOf(last'.before.path))
    /\ IsDir(fs, LocOf(last'.before.path) \o <<"sub">>)

\* the call was rejected as circular and moved nothing
RejectedInPlace ==
    /\ last'.err = "CirculateError"
    /\ items'[last'.id].path = last'.before.path
    /\ IsDir(fs', LocOf(last'.before.path))

\* C2 as stated: d.moveTo("./sub/x") on a directory d that contains d/sub fails
\* with CirculateError, and d stays where it was.
C2_MoveToSubRejected ==
    [][MoveOfDirWithSub(<<".", "sub", "x">>) => RejectedInPlace]_vars

\* C2 as amended: the destination is resolved against d's parent directory, so
\* for a directory named d that contains d/sub it is d.moveTo("./d/sub/x") that
\* fails with CirculateError, and d stays where it was.
C2_MoveToOwnSubRejected ==
    [][(MoveOfDirWithSub(<<".", "d", "sub", "x">>)
            /\ basename(last'.before.path) = <<"d">>)
        => RejectedInPlace]_vars

C2_Witness ==
    /\ last.op = "moveTo"
    /\ ~last.baseCwd
    /\ last.arg = <<".", "d", "sub", "x">>
    /\ last.before = [type |-> Directory, path |-> <<"", "w", "d">>]
    /\ last.err = "CirculateError"
    /\ IsDir(fs, <<"w", "d", "sub">>)

\* C3: rename with a name that contains a path separator fails with
\* NotNameError, issues no OS rename and leaves the entry's path as it was.
C3_SeparatorNameRejected ==
    (last.op = "rename" /\ Len(last.arg) > 1) =>
        /\ last.err = "NotNameError"
        /\ last.calls = <<>>
        /\ items[last.id].path = last.before.path

\* C4: after a rename that succeeded the entry is in the directory it was in
\* and its final path segment is the name that was given.
C4_RenameChangesOnlyName ==
    (last.op = "rename" /\ last.err = "OK") =>
        /\ Parent(LocOf(items[last.id].path)) = Parent(LocOf(last.before.path))
        /\ basename(items[last.id].path) = last.arg

\* C5: the path of every entry object is absolute, in every reachable state.
C5_PathAlwaysAbsolute ==
    \A i \in Ids : items[i] # NoItem => isAbsolute(items[i].path)

\* C6: a moveTo whose resolved destination is in another directory, and whose
\* OS rename would succeed, succeeds and leaves the entry's path equal to the
\* resolved destination.
C6_MoveAcrossDirectories ==
    [][(/\ steps' = steps + 1
        /\ last'.op = "moveTo"
        /\ ~last'.denied
        /\ Parent(LocOf(DestOf(last'))) # Parent(LocOf(last'.before.path))
        /\ RenameErr(fs, last'.before.path, DestOf(last')) = "OK")
        => (/\ last'.err = "OK"
            /\ items'[last'.id].path = DestOf(last'))]_vars

\* C11: FileSystem.getItem classifies the entry at the path itself: for a path
\* that is a symbolic link, dangling or not, it returns a SymbolicLink entry
\* whose path is the link's own path; for a path that names nothing it fails
\* with ENOENT.
C11_GetItemDoesNotFollow ==
    last.op = "getItem" =>
        LET n == Lookup(fs, last.arg)
        IN  /\ (n.err = "OK" /\ Exists(fs, n.loc) /\ fs[n.loc].type = S_IFLNK) =>
                    /\ last.err = "OK"
                    /\ items[last.id].type = SymbolicLink
                    /\ items[last.id].path = resolve(cwd, last.arg)
                    /\ LocOf(items[last.id].path) = n.loc
            /\ (n.err = "ENOENT" \/ (n.err = "OK" /\ ~Exists(fs, n.loc))) =>
                    last.err = "ENOENT"

\* getItem on a symbolic link whose target is gone
C11_Witness ==
    /\ last.op = "getItem"
    /\ last.arg = <<"l">>
    /\ last.err = "OK"
    /\ items[last.id].type = SymbolicLink
    /\ fs[<<"w", "l">>].type = S_IFLNK
    /\ ~Exists(fs, <<"w", "d", "f">>)

\* C22: a rename or moveTo call that fails, at the OS rename or before it,
\* leaves the entry's path and the tree as they were; one that succeeds has
\* issued an OS rename that succeeded, and the entry's path then names the
\* place where the object that was at the old path is now.
C22_PathFollowsRename ==
    [][(steps' = steps + 1 /\ last'.op \in {"rename", "moveTo"}) =>
        LET i == last'.id
            o == Lookup(fs, items[i].path)
            n == Lookup(fs', items'[i].path)
        IN  IF last'.err # "OK"
            THEN items'[i] = items[i] /\ fs' = fs
            ELSE /\ \E k \in 1..Len(last'.calls) :
                        last'.calls[k].call = "rename" /\ last'.calls[k].err = "OK"
                 /\ items'[i].type = items[i].type
                 /\ n.err = "OK"
                 /\ Exists(fs', n.loc)
                 /\ fs'[n.loc] = fs[o.loc]
                 /\ n.loc # o.loc => ~Exists(fs', o.loc)]_vars

\* the OS rename of a moveTo was issued and failed, and the path is as it was
C22_Witness ==
    /\ last.op = "moveTo"
    /\ Len(last.calls) = 1
    /\ last.calls[1].call = "rename"
    /\ last.err \notin {"OK", "CirculateError", "NotNameError"}
    /\ items[last.id] = last.before
    /\ ~last.changed

-----------------------------------------------------------------------------
(* The state machine of lookup, creation and file content *)

\* the tree it starts on: /w/l is a link with a relative target, /w/ld and
\* /w/d/sub/a are links with absolute targets
FilesFs ==
    (<<>> :> DirNode)
    @@ (<<"w">> :> DirNode)
    @@ (<<"w", "d">> :> DirNode)
    @@ (<<"w", "d", "f">> :> FileNode(S_IFREG, <<1>>))
    @@ (<<"w", "d", "sub">> :> DirNode)
    @@ (<<"w", "d", "sub", "a">> :> LinkNode(<<"", "w", "d", "f">>))
    @@ (<<"w", "l">> :> LinkNode(<<"d", "f">>))
    @@ (<<"w", "ld">> :> LinkNode(<<"", "w", "d">>))

\* paths handed to getItem, getDirectory and getFile:
\* "d", "d/f", "l", "ld", "d/sub/a", "nope"
FilePaths ==
    {<<"d">>, <<"d", "f">>, <<"l">>, <<"ld">>, <<"d", "sub", "a">>, <<"nope">>}

\* paths handed to createFile, createDirectory and copy: "x", "d/f", "d", "nope/x"
Dests == {<<"x">>, <<"d", "f">>, <<"d">>, <<"nope", "x">>}

\* byte sequences
Datas == {<<>>, <<2>>, <<2, 1>>}

\* options of createFile: none, or the flag "wx"
FileOpts == {"none", "wx"}

\* options of createDirectory: none, or recursive
DirOpts == {"none", "recursive"}

\* lengths handed to truncate
Lens == {0, 1}

InitFiles ==
    /\ fs = FilesFs
    /\ items = [i \in Ids |-> NoItem]
    /\ last = NoLast
    /\ steps = 0
    /\ h = InitH
    /\ q = NoQuery
    /\ gc = NoChildren

\* let item = await FileSystem.getDirectory(p)
GetDirectory(i, p, perm) ==
    LET o == FileSystem_getDirectory(fs, p, perm)
    IN  /\ steps < MaxOps
        /\ steps' = steps + 1
        /\ items' = IF o.err = "OK" THEN [items EXCEPT ![i] = o.item] ELSE items
        /\ last' = Done("getDirectory", i, p, FALSE, FALSE, o, NoItem, fs)
        /\ UNCHANGED <<fs, h, q, gc>>

\* let item = await FileSystem.getFile(p)
GetFile(i, p, perm) ==
    LET o == FileSystem_getFile(fs, p, perm)
    IN  /\ steps < MaxOps
        /\ steps' = steps + 1
        /\ items' = IF o.err = "OK" THEN [items EXCEPT ![i] = o.item] ELSE items
        /\ last' = Done("getFile", i, p, FALSE, FALSE, o, NoItem, fs)
        /\ UNCHANGED <<fs, h, q, gc>>

\* let item = await FileSystem.createFile(p, data, options)
CreateFile(i, p, data, opt) ==
    LET o == FileSystem_createFile(fs, p, data, IF opt = "none" THEN "w" ELSE opt, FALSE)
    IN  /\ steps < MaxOps
        /\ steps' = steps + 1
        /\ fs' = o.fs
        /\ items' = IF o.err = "OK" THEN [items EXCEPT ![i] = o.item] ELSE items
        /\ last' = [Done("createFile", i, p, FALSE, FALSE, o, NoItem, fs)
                        EXCEPT !.opt = opt, !.data = data]
        /\ UNCHANGED <<h, q, gc>>

\* let item = await FileSystem.createDirectory(p, options)
CreateDirectory(i, p, opt) ==
    LET o == FileSystem_createDirectoryWith(fs, p, opt = "recursive", FALSE)
    IN  /\ steps < MaxOps
        /\ steps' = steps + 1
        /\ fs' = o.fs
        /\ items' = IF o.err = "OK" THEN [items EXCEPT ![i] = o.item] ELSE items
        /\ last' = [Done("createDirectory", i, p, FALSE, FALSE, o, NoItem, fs)
                        EXCEPT !.opt = opt]
        /\ UNCHANGED <<h, q, gc>>

\* let target = await link.getItem()
LinkGetItem(i, j) ==
    LET o == SymbolicLink_getItem(fs, items[i])
    IN  /\ steps < MaxOps
        /\ items[i].type = SymbolicLink
        /\ i # j
        /\ steps' = steps + 1
        /\ items' = IF o.err = "OK" THEN [items EXCEPT ![j] = o.item] ELSE items
        /\ last' = Done("linkGetItem", i, <<>>, FALSE, FALSE, o, items[i], fs)
        /\ UNCHANGED <<fs, h, q, gc>>

\* let data = await file.read()
Read(i) ==
    LET r == read(fs, items[i])
    IN  /\ steps < MaxOps
        /\ items[i].type \in FileLikeTypes
        /\ steps' = steps + 1
        /\ last' = [Done("read", i, <<>>, FALSE, FALSE,
                          Outcome(r.err, fs, <<Call("readFile", items[i].path, <<>>, r.err)>>, NoItem),
                          items[i], fs)
                        EXCEPT !.ret = r.data]
        /\ UNCHANGED <<fs, items, h, q, gc>>

\* await file.write(data)
Write(i, data) ==
    LET w == write(fs, items[i], data, FALSE)
    IN  /\ steps < MaxOps
        /\ items[i].type \in FileLikeTypes
        /\ steps' = steps + 1
        /\ fs' = w.fs
        /\ last' = [Done("write", i, <<>>, FALSE, FALSE,
                          Outcome(w.err, w.fs, <<Call("writeFile", items[i].path, <<>>, w.err)>>, NoItem),
                          items[i], fs)
                        EXCEPT !.data = data]
        /\ UNCHANGED <<items, h, q, gc>>

\* await file.truncate(len)
Truncate(i, len) ==
    LET t == truncate(fs, items[i], len, FALSE)
    IN  /\ steps < MaxOps
        /\ items[i].type \in FileLikeTypes
        /\ steps' = steps + 1
        /\ fs' = t.fs
        /\ last' = [Done("truncate", i, <<>>, FALSE, FALSE,
                          Outcome(t.err, t.fs, <<Call("truncate", items[i].path, <<>>, t.err)>>, NoItem),
                          items[i], fs)
                        EXCEPT !.len = len]
        /\ UNCHANGED <<items, h, q, gc>>

\* number of calls in one run of lookup, creation and copy
MaxCalls == 2

NextFiles ==
    \/ \E i \in Ids, p \in FilePaths, perm \in PermSet :
            steps < MaxCalls /\ GetItem(i, p, perm)
    \/ \E i \in Ids, p \in FilePaths, perm \in PermSet :
            steps < MaxCalls /\ GetDirectory(i, p, perm)
    \/ \E i \in Ids, p \in FilePaths, perm \in PermSet :
            steps < MaxCalls /\ GetFile(i, p, perm)
    \/ \E i \in Ids, p \in Dests, d \in Datas, o \in FileOpts :
            steps < MaxCalls /\ CreateFile(i, p, d, o)
    \/ \E i \in Ids, p \in Dests, o \in DirOpts :
            steps < MaxCalls /\ CreateDirectory(i, p, o)
    \/ \E i, j \in Ids :
            steps < MaxCalls /\ LinkGetItem(i, j)
    \/ \E i, j \in Ids, p \in Dests, b \in BOOLEAN :
            steps < MaxCalls /\ Copy(i, j, p, b)

SpecFiles == InitFiles /\ [][NextFiles]_vars

\* file content: a file is made or looked up, then written, cut and read
NextContent ==
    \/ \E i \in Ids, d \in Datas : CreateFile(i, <<"x">>, d, "none")
    \/ \E i \in Ids, perm \in PermSet : GetFile(i, <<"d", "f">>, perm)
    \/ \E i \in Ids : Read(i)
    \/ \E i \in Ids, d \in Datas : Write(i, d)
    \/ \E i \in Ids, n \in Lens : Truncate(i, n)

SpecContent == InitFiles /\ [][NextContent]_vars

-----------------------------------------------------------------------------
(* Claims about lookup, creation and file content *)

ExistsAt(f, p) == Lookup(f, p).err = "OK" /\ Exists(f, Lookup(f, p).loc)

\* C13: createFile without an option fails when there is an entry at the
\* path, createDirectory without an option fails when there is an entry at the
\* path or the parent directory is missing, and the failed call leaves the
\* tree, the entry that is there and its content included, as it was.
C13_CreateFailsOnExisting ==
    [][(/\ steps' = steps + 1
        /\ last'.opt = "none"
        /\ \/ last'.op = "createFile" /\ ExistsAt(fs, last'.arg)
           \/ /\ last'.op = "createDirectory"
              /\ (ExistsAt(fs, last'.arg) \/ Lookup(fs, last'.arg).err # "OK"))
        => (last'.err # "OK" /\ fs' = fs)]_vars

\* the location the target of the symbolic link at loc denotes: a relative
\* target counts from the directory the link is in
LinkTargetLoc(f, loc) ==
    LET tg == f[loc].target
    IN  IF tg = <<"">> THEN Fail("ENOENT")
        ELSE Walk(f, IF isAbsolute(tg) THEN <<>> ELSE Parent(loc), tg, MaxSymlinkHops)

\* the entry object it is a SymbolicLink entry for a link that is there, and
\* the link's target is an entry of the given type
PointsAt(f, it, type) ==
    /\ it.type = SymbolicLink
    /\ ExistsAt(f, it.path)
    /\ f[Lookup(f, it.path).loc].type = S_IFLNK
    /\ LET t == LinkTargetLoc(f, Lookup(f, it.path).loc)
       IN  t.err = "OK" /\ Exists(f, t.loc) /\ f[t.loc].type = type

\* C14: getItem() on a SymbolicLink entry that points at a regular file
\* returns a File entry whose path names the location the link's target
\* denotes, not the link's own path, for an absolute target and for a target
\* relative to the link's directory alike.
C14_LinkTargetResolved ==
    (last.op = "linkGetItem" /\ PointsAt(fs, last.before, S_IFREG)) =>
        /\ last.err = "OK"
        /\ \E j \in Ids \ {last.id} :
                /\ items[j].type = File
                /\ LocOf(items[j].path) = LinkTargetLoc(fs, Lookup(fs, last.before.path).loc).loc
                /\ items[j].path # last.before.path

\* a step that calls copy on a SymbolicLink entry whose link is there and
\* points at an entry that is there, with a destination that is free and
\* whose directory is there
LinkCopyCase ==
    /\ steps' = steps + 1
    /\ last'.op = "copy"
    /\ \E type \in ItemType : PointsAt(fs, last'.before, type)
    /\ Lookup(fs, DestOf(last')).err = "OK"
    /\ ~Exists(fs, Lookup(fs, DestOf(last')).loc)

\* the copy made a symbolic link at the destination, and nothing else, that
\* points where the source link points, and returned the entry of the new link
LinkCopied ==
    LET src == Lookup(fs, last'.before.path).loc
        dst == Lookup(fs, DestOf(last')).loc
    IN  /\ last'.err = "OK"
        /\ DOMAIN fs' = DOMAIN fs \cup {dst}
        /\ \A l \in DOMAIN fs : fs'[l] = fs[l]
        /\ fs'[dst].type = S_IFLNK
        /\ LinkTargetLoc(fs', dst) = LinkTargetLoc(fs, src)
        /\ \E j \in Ids \ {last'.id} :
                items'[j] = [type |-> SymbolicLink, path |-> DestOf(last')]

\* C15: copy(dest, baseCwd) on a SymbolicLink entry makes a new symbolic link
\* that points at the entry the source link points at, at dest resolved
\* against the source link's directory when baseCwd is false and against the
\* working directory when baseCwd is true.
C15_LinkCopyAtResolvedDest ==
    [][LinkCopyCase => LinkCopied]_vars

\* a step in which copy on a Directory entry succeeded, for a destination
\* that was free and is not inside the source
DirCopyCase ==
    /\ steps' = steps + 1
    /\ last'.op = "copy"
    /\ last'.before.type = Directory
    /\ last'.err = "OK"
    /\ Lookup(fs, DestOf(last')).err = "OK"
    /\ ~Exists(fs, Lookup(fs, DestOf(last')).loc)
    /\ ~IsPrefix(Lookup(fs, last'.before.path).loc, Lookup(fs, DestOf(last')).loc)

\* the destination holds the source tree, the old tree is as it was and the
\* entry returned is the one of the destination
DirCopied ==
    LET src == Lookup(fs, last'.before.path).loc
        dst == Lookup(fs, DestOf(last')).loc
    IN  /\ IsDir(fs', dst)
        /\ \A l \in DOMAIN fs :
                IsPrefix(src, l) =>
                    LET r == SubSeq(l, Len(src) + 1, Len(l))
                    IN  /\ Exists(fs', dst \o r)
                        /\ fs'[dst \o r].type = fs[l].type
                        /\ fs[l].type = S_IFREG => fs'[dst \o r].data = fs[l].data
        /\ \A l \in DOMAIN fs : Exists(fs', l) /\ fs'[l] = fs[l]
        /\ \A l \in DOMAIN fs' : IsPrefix(src, l) => Exists(fs, l)
        /\ \E j \in Ids \ {last'.id} :
                items'[j] = [type |-> Directory, path |-> DestOf(last')]

-----------------------------------------------------------------------------
(* Directory.getChildren: one readdir, then one FileSystem.getItem per      *)
(* dirent, all issued at once and awaited with Promise.all.  Between the    *)
(* listing and the answer to each lstat another actor may change the tree.  *)

\* changes another actor makes to the tree while one getChildren runs
MaxExternal == 1

\* the orders in which readdir may give the names of S
Orders(S) ==
    {o \in [1..Cardinality(S) -> S] :
        \A a, b \in 1..Cardinality(S) : a # b => o[a] # o[b]}

\* return items, whatever the type argument
GetChildrenFilter_Ignored(type, its) == its

\* return type ? items.filter(it => it.type === type) : items
GetChildrenFilter(type, its) ==
    IF type # 0 THEN SelectSeq(its, LAMBDA it : it.type = type) ELSE its

\* let res = await promises.readdir(this.path, { withFileTypes: true }), then
\* FileSystem.getItem is called for every dirent: each call stops at its lstat
GcReaddir(i, type) ==
    LET rd == OsReaddir(fs, items[i].path)
    IN  /\ gc.pc = "idle"
        /\ items[i].type = Directory
        /\ IF rd.err # "OK"
           THEN gc' = [gc EXCEPT !.pc = "settled", !.dir = items[i], !.type = type,
                                 !.res = [err |-> rd.err, items |-> <<>>]]
           ELSE \E o \in Orders({e.name : e \in rd.ents}) :
                    gc' = [gc EXCEPT !.pc = "listed", !.dir = items[i], !.type = type,
                                     !.names = o,
                                     !.got = [k \in 1..Len(o) |->
                                                [err |-> "pending", item |-> NoItem]]]
        /\ UNCHANGED <<fs, items, last, steps, h, q>>

\* the OS answers the lstat of the k-th dirent, and that getItem settles
GcLstat(k, perm) ==
    /\ gc.pc = "listed"
    /\ k \in 1..Len(gc.names)
    /\ gc.got[k].err = "pending"
    /\ LET g == FileSystem_getItem(fs, resolve(gc.dir.path, <<gc.names[k]>>), perm)
       IN  gc' = [gc EXCEPT !.got[k] = [err |-> g.err, item |-> g.item],
                            !.firstErr = IF @ = "OK" THEN g.err ELSE @]
    /\ UNCHANGED <<fs, items, last, steps, h, q>>

\* a settle that hands over the children that did resolve
GcSettle_Partial ==
    /\ gc.pc = "listed"
    /\ gc.firstErr # "OK" \/ \A k \in 1..Len(gc.names) : gc.got[k].err = "OK"
    /\ gc' = [gc EXCEPT !.pc = "settled",
                !.res = [err |-> "OK",
                         items |-> GetChildrenFilter(gc.type,
                            [k \in 1..Len(SelectSeq(gc.got, LAMBDA g : g.err = "OK")) |->
                                SelectSeq(gc.got, LAMBDA g : g.err = "OK")[k].item])]]
    /\ UNCHANGED <<fs, items, last, steps, h, q>>

\* let items = await Promise.all(pArr): rejected with the first rejection,
\* else fulfilled when every getItem is; then the filter and the return
GcSettle ==
    /\ gc.pc = "listed"
    /\ gc.firstErr # "OK" \/ \A k \in 1..Len(gc.names) : gc.got[k].err = "OK"
    /\ gc' = [gc EXCEPT !.pc = "settled",
                !.res = IF gc.firstErr # "OK"
                        THEN [err |-> gc.firstErr, items |-> <<>>]
                        ELSE [err |-> "OK",
                              items |-> GetChildrenFilter(gc.type,
                                            [k \in 1..Len(gc.names) |-> gc.got[k].item])]]
    /\ UNCHANGED <<fs, items, last, steps, h, q>>

\* another actor removes a child of the directory while getChildren waits
External(loc) ==
    /\ gc.pc = "listed"
    /\ gc.ext < MaxExternal
    /\ loc \in Children(fs, LocOf(gc.dir.path))
    /\ fs' = OsRemove(fs, loc)
    /\ gc' = [gc EXCEPT !.ext = @ + 1]
    /\ UNCHANGED <<items, last, steps, h, q>>

\* let file = await dir.createSubFile(path, data)
CreateSubFile(i, path, data) ==
    LET o == createSubFile(fs, items[i], path, data, "w", FALSE)
    IN  /\ steps < MaxOps
        /\ items[i].type = Directory
        /\ steps' = steps + 1
        /\ fs' = o.fs
        /\ last' = [Done("createSubFile", i, path, FALSE, FALSE, o, items[i], fs)
                        EXCEPT !.data = data]
        /\ UNCHANGED <<items, h, q, gc>>

\* type arguments of getChildren: none, File (getSubFile), Directory
\* (getSubDirectory)
TypeArgs == {0, File, Directory}

\* the program makes or looks up a directory, fills it, and enumerates it once
NextChildren ==
    \/ \E i \in Ids, p \in {<<"d">>, <<"d", "sub">>}, perm \in PermSet :
            gc.pc = "idle" /\ steps < MaxCalls /\ GetItem(i, p, perm)
    \/ \E i \in Ids :
            gc.pc = "idle" /\ steps < MaxCalls /\ CreateDirectory(i, <<"e">>, "none")
    \/ \E i \in Ids :
            gc.pc = "idle" /\ steps < MaxCalls /\ CreateSubFile(i, <<"a.txt">>, <<2, 1>>)
    \/ \E i \in Ids, t \in TypeArgs : GcReaddir(i, t)
    \/ \E k \in 1..3, perm \in PermSet : GcLstat(k, perm)
    \/ GcSettle
    \/ \E loc \in DOMAIN fs : External(loc)

SpecChildren == InitFiles /\ [][NextChildren]_vars

\* C18: getChildren() on a directory that nobody changes meanwhile returns,
\* for every immediate child that its type argument lets through (all of them
\* without one), exactly one entry, with the directory's path joined with the
\* child's name as its path and the child's own type, and nothing else.
C18_ChildrenExactlyOnce ==
    (gc.pc = "settled" /\ gc.ext = 0 /\ IsDir(fs, LocOf(gc.dir.path))) =>
        LET wanted == {l \in Children(fs, LocOf(gc.dir.path)) :
                            gc.type = 0 \/ fs[l].type = gc.type}
        IN  /\ gc.res.err = "OK"
            /\ Len(gc.res.items) = Cardinality(wanted)
            /\ \A l \in wanted :
                    \E k \in 1..Len(gc.res.items) :
                        gc.res.items[k] = [type |-> fs[l].type,
                                           path |-> gc.dir.path \o <<Last(l)>>]

\* the directory e was made, a.txt was made in it, and the children of e are
\* one File entry named a.txt
C18_Witness ==
    /\ gc.pc = "settled"
    /\ gc.ext = 0
    /\ gc.dir = [type |-> Directory, path |-> <<"", "w", "e">>]
    /\ last.op = "createSubFile"
    /\ gc.res = [err |-> "OK",
                 items |-> <<[type |-> File, path |-> <<"", "w", "e", "a.txt">>]>>]

\* C19: if the getItem of any one child fails, getChildren rejects with the
\* error of the first one that failed and hands over no list, whatever the
\* other children resolved to.
C19_ChildrenAllOrNothing ==
    (gc.pc = "settled" /\ \E k \in 1..Len(gc.got) : gc.got[k].err \notin {"OK", "pending"}) =>
        /\ gc.res.err = gc.firstErr
        /\ \E k \in 1..Len(gc.got) : gc.got[k].err = gc.res.err
        /\ gc.res.err # "OK"
        /\ gc.res.items = <<>>

\* a child was removed between the listing and its lstat, another child did
\* resolve, and the call was rejected with ENOENT
C19_Witness ==
    /\ gc.pc = "settled"
    /\ gc.ext = 1
    /\ \E k \in 1..Len(gc.got) : gc.got[k].err = "ENOENT"
    /\ \E k \in 1..Len(gc.got) : gc.got[k].err = "OK"
    /\ gc.res = [err |-> "ENOENT", items |-> <<>>]

-----------------------------------------------------------------------------
(* Scoped open: FileLikeItem.open and Directory.open with the handle they  *)
(* pass to the callback (FileItemHandle, DirectoryItemHandle)              *)

\* number of close() calls the callback and its caller make on the handle
MaxCloseCalls == 3

Kinds == {"file", "dir"}

\* close(), up to its await: nothing to do when isClosed, else the OS close
\* is issued and the call waits for it
HandleCloseStart(hh) ==
    IF hh.isClosed
    THEN [hh EXCEPT !.calls = @ + 1, !.noops = @ + 1, !.lastRet = "ok"]
    ELSE [hh EXCEPT !.calls = @ + 1, !.osCloses = @ + 1,
                    !.pending = @ \cup {hh.calls + 1}]

\* close() without its last line, this.isClosed = true
HandleCloseFinish_FlagNotSet(hh, id, ok) ==
    [hh EXCEPT !.pending = @ \ {id},
               !.fdOpen = FALSE,
               !.okCloses = IF ok THEN @ + 1 ELSE @,
               !.lastRet = IF ok THEN "ok" ELSE "err"]

\* close(), after its await: the flag is set once the OS close is fulfilled;
\* a rejected OS close is thrown on and leaves the flag as it was
HandleCloseFinish(hh, id, ok) ==
    [hh EXCEPT !.pending = @ \ {id},
               !.fdOpen = FALSE,
               !.isClosed = IF ok THEN TRUE ELSE @,
               !.okCloses = IF ok THEN @ + 1 ELSE @,
               !.lastRet = IF ok THEN "ok" ELSE "err"]

\* what the OS may answer to a close: a descriptor that is open is closed, and
\* the call may still report an I/O error; closing a directory stream again is
\* an error, closing a file handle again is an error or not with the runtime
CloseAnswers(hh) ==
    IF hh.fdOpen \/ hh.kind = "file" THEN {TRUE, FALSE} ELSE {FALSE}

\* FileLikeItem.open, try { await callback(item) } finally { await item.close() }:
\* a failing close rejects open, else the callback's failure does
FileLikeItem_open_settle(cbRes, closeOk) ==
    IF ~closeOk THEN "rejected_close"
    ELSE IF cbRes = "err" THEN "rejected_cb"
    ELSE "resolved"

\* Directory.open, whose finally holds try { await item.close() } catch { }
Directory_open_settle(cbRes, closeOk) ==
    IF cbRes = "err" THEN "rejected_cb" ELSE "resolved"

SettleOpen(kind, cbRes, closeOk) ==
    IF kind = "file" THEN FileLikeItem_open_settle(cbRes, closeOk)
    ELSE Directory_open_settle(cbRes, closeOk)

Quiet == UNCHANGED <<fs, items, last, steps, q, gc>>

\* promises.open / promises.opendir succeeds: the handle is made and the
\* callback is called with it
OpenOk(kind) ==
    /\ h.pc = "idle"
    /\ h' = [h EXCEPT !.pc = "callback", !.kind = kind, !.opened = TRUE,
                      !.fdOpen = TRUE, !.cb = "running"]
    /\ Quiet

\* promises.open / promises.opendir rejects: open rejects with it
OpenFail(kind) ==
    /\ h.pc = "idle"
    /\ h' = [h EXCEPT !.pc = "settled", !.kind = kind, !.result = "rejected_open"]
    /\ Quiet

\* the callback, or later the holder of the handle, calls close()
UserClose ==
    /\ h.pc \in {"callback", "finally", "closing", "settled"}
    /\ h.opened
    /\ h.calls < MaxCloseCalls
    /\ h' = HandleCloseStart(h)
    /\ Quiet

\* the OS answers a close() made by the callback or the holder
UserCloseReturn(id, ok) ==
    /\ id \in h.pending
    /\ id # h.finId
    /\ ok \in CloseAnswers(h)
    /\ h' = HandleCloseFinish(h, id, ok)
    /\ Quiet

\* the callback runs `for await` over the directory handle to its end: the
\* runtime's iterator closes the directory stream when it is exhausted
CbIterate ==
    /\ h.pc = "callback"
    /\ h.kind = "dir"
    /\ h.fdOpen
    /\ h' = [h EXCEPT !.fdOpen = FALSE, !.osCloses = @ + 1]
    /\ Quiet

\* open without try/finally: a callback that rejects rejects open at once
CbReturn_NoFinally(res) ==
    /\ h.pc = "callback"
    /\ h' = IF res = "err"
            THEN [h EXCEPT !.pc = "settled", !.cb = res, !.result = "rejected_cb"]
            ELSE [h EXCEPT !.pc = "finally", !.cb = res]
    /\ Quiet

\* the promise of the callback settles; control reaches the finally block
CbReturn(res) ==
    /\ h.pc = "callback"
    /\ h' = [h EXCEPT !.pc = "finally", !.cb = res]
    /\ Quiet

\* the finally block calls item.close()
FinallyClose ==
    /\ h.pc = "finally"
    /\ LET h1 == HandleCloseStart(h)
       IN  IF h.isClosed
           THEN h' = [h1 EXCEPT !.pc = "settled", !.fin = "ok",
                                !.result = SettleOpen(h.kind, h.cb, TRUE)]
           ELSE h' = [h1 EXCEPT !.pc = "closing", !.fin = "invoked",
                                !.finId = h.calls + 1]
    /\ Quiet

\* the close() of the finally block returns, and open settles
FinallyReturn(ok) ==
    /\ h.pc = "closing"
    /\ ok \in CloseAnswers(h)
    /\ h' = [HandleCloseFinish(h, h.finId, ok) EXCEPT
                !.pc = "settled",
                !.fin = IF ok THEN "ok" ELSE "err",
                !.result = SettleOpen(h.kind, h.cb, ok)]
    /\ Quiet

NextOpen ==
    \/ \E k \in Kinds : OpenOk(k)
    \/ \E k \in Kinds : OpenFail(k)
    \/ UserClose
    \/ \E id \in 1..MaxCloseCalls, ok \in BOOLEAN : UserCloseReturn(id, ok)
    \/ CbIterate
    \/ \E res \in {"ok", "err"} : CbReturn(res)
    \/ FinallyClose
    \/ \E ok \in BOOLEAN : FinallyReturn(ok)

SpecOpen == Init /\ [][NextOpen]_vars

-----------------------------------------------------------------------------
(* Claims about the scoped open and the handles *)

\* C7: a close() call made after an earlier close() was fulfilled returns at
\* once without error, sends no close to the OS descriptor and changes nothing
\* of the handle (for the file handle and the directory handle alike).
C7_SecondCloseIsNoop ==
    [][(h'.calls = h.calls + 1 /\ h.okCloses > 0)
        => (/\ h'.osCloses = h.osCloses
            /\ h'.noops = h.noops + 1
            /\ h'.lastRet = "ok"
            /\ h'.pending = h.pending
            /\ h'.isClosed = h.isClosed
            /\ h'.fdOpen = h.fdOpen)]_vars

C7_Witness ==
    /\ h.okCloses = 1
    /\ h.noops > 0
    /\ h.calls >= 2
    /\ h.osCloses = 1
    /\ h.pending = {}

\* C8: when open has settled, either the OS open succeeded and so the callback
\* was called and, after it settled either way, open called close() on the
\* handle; or the OS open failed and then the callback was never called and
\* no close was made.
C8_CloseOnEveryExit ==
    h.pc = "settled" =>
        IF h.opened
        THEN h.cb \in {"ok", "err"} /\ h.fin \in {"ok", "err"}
        ELSE /\ h.result = "rejected_open"
             /\ h.cb = "none"
             /\ h.calls = 0
             /\ h.osCloses = 0

C8_Witness ==
    /\ h.pc = "settled"
    /\ h.opened
    /\ h.cb = "err"
    /\ h.fin = "ok"
    /\ h.result = "rejected_cb"

\* C9: Directory.open hides a failure of its close only behind a failure of
\* the callback; with a callback that returned normally, a failing close
\* rejects open.
C9_CloseErrorNotSwallowed ==
    (h.pc = "settled" /\ h.kind = "dir" /\ h.fin = "err") =>
        IF h.cb = "err" THEN h.result = "rejected_cb"
        ELSE h.result = "rejected_close"

\* C20: in a Directory.open call whose callback makes no close() call of its
\* own, the directory stream receives at most one close call, also when the
\* callback has iterated the handle to its end (or left the loop) before the
\* finally block of open runs.
C20_AtMostOneOsClose ==
    (h.kind = "dir" /\ h.calls = (IF h.fin = "none" THEN 0 ELSE 1)) =>
        h.osCloses <= 1

-----------------------------------------------------------------------------
(* Reading a DirectoryItemHandle: read(), the iterator of all children and  *)
(* the iterators of one type share the one directory stream of the handle.  *)

\* read() calls made on one handle
MaxReads == 3

\* the directory the handle is opened on: "/w/d"
ReadPath == <<"", "w", "d">>

\* new DirectoryItemHandle(dir) for a stream just opened on ReadPath; the
\* stream gives the dirents in an order of its own
InitRead ==
    /\ fs = InitFs
    /\ items = [i \in Ids |-> NoItem]
    /\ last = NoLast
    /\ steps = 0
    /\ q = NoQuery
    /\ gc = NoChildren
    /\ \E o \in Orders(OsReaddir(InitFs, ReadPath).ents) :
            h = [InitH EXCEPT !.pc = "callback", !.kind = "dir", !.opened = TRUE,
                              !.fdOpen = TRUE, !.cb = "running",
                              !.dpath = ReadPath, !.rest = o]

\* DirectoryItemHandle.getItem(dirent)
DirectoryItemHandle_getItem(hh, e) ==
    getItem(e.type, resolve(hh.dpath, <<e.name>>)).item

\* the dirents from the first one of the given type on (all for type 0)
RECURSIVE SkipTo(_, _)
SkipTo(rest, type) ==
    IF rest = <<>> \/ type = 0 \/ Head(rest).type = type THEN rest
    ELSE SkipTo(Tail(rest), type)

\* let item = await handle.read(): the next dirent of the stream as an entry,
\* null at the end; the stream rejects a read once it is closed
HandleRead ==
    /\ h.reads < MaxReads
    /\ h' = IF ~h.fdOpen
            THEN [h EXCEPT !.reads = @ + 1, !.ret = "ERR_DIR_CLOSED"]
            ELSE IF h.rest = <<>>
            THEN [h EXCEPT !.reads = @ + 1, !.ret = "null"]
            ELSE [h EXCEPT !.reads = @ + 1, !.ret = "item",
                           !.rest = Tail(@),
                           !.delivered = Append(@, DirectoryItemHandle_getItem(h, Head(h.rest)))]
    /\ Quiet

\* handle[Symbol.asyncIterator]() (type 0) or handle.getIteratorOf(type)
IterNew(i, type) ==
    /\ h.iters[i].st = "none"
    /\ h' = [h EXCEPT !.iters[i] = [type |-> type, st |-> "new"]]
    /\ Quiet

\* one next() of an iterator: `for await (let it of this.dir)` reads on until
\* a dirent of its type, which is yielded as an entry; at the end of the
\* stream the loop is over and the stream's own iterator closes the stream;
\* on a closed stream the read fails
IterNext(i) ==
    /\ h.iters[i].st \in {"new", "running"}
    /\ LET r == SkipTo(h.rest, h.iters[i].type)
       IN  h' = IF ~h.fdOpen
                THEN [h EXCEPT !.iters[i].st = "failed"]
                ELSE IF r = <<>>
                THEN [h EXCEPT !.iters[i].st = "done", !.rest = <<>>,
                               !.fdOpen = FALSE, !.osCloses = @ + 1]
                ELSE [h EXCEPT !.iters[i].st = "running", !.rest = Tail(r),
                               !.delivered = Append(@, DirectoryItemHandle_getItem(h, Head(r)))]
    /\ Quiet

\* the caller leaves its `for await` loop early: the iterator's return()
\* ends the loop over the stream, which closes the stream
IterReturn(i) ==
    /\ h.iters[i].st = "running"
    /\ h' = IF ~h.fdOpen
            THEN [h EXCEPT !.iters[i].st = "failed"]
            ELSE [h EXCEPT !.iters[i].st = "done",
                           !.fdOpen = FALSE, !.osCloses = @ + 1]
    /\ Quiet

NextRead ==
    \/ HandleRead
    \/ \E i \in IterIds, t \in {0, File, Directory} : IterNew(i, t)
    \/ \E i \in IterIds : IterNext(i)
    \/ \E i \in IterIds : IterReturn(i)

SpecRead == InitRead /\ [][NextRead]_vars

\* every child of the opened directory has been handed over
AllDelivered(hh) ==
    \A e \in OsReaddir(fs, hh.dpath).ents :
        \E k \in 1..Len(hh.delivered) :
            hh.delivered[k] = DirectoryItemHandle_getItem(hh, e)

\* C21: over all read() calls and iterator steps on one handle no child is
\* handed over twice, and a read() made when every child has been handed over
\* returns null and does not fail.
C21_ForwardOnlyThenNull ==
    [][/\ \A a, b \in 1..Len(h'.delivered) : a # b => h'.delivered[a] # h'.delivered[b]
       /\ (h'.reads = h.reads + 1 /\ AllDelivered(h)) => h'.ret = "null"]_vars

-----------------------------------------------------------------------------
(* Classification: FileSystem.getItem hands s.mode & S_IFMT, with the path, *)
(* to the module's getItem                                                  *)

\* the sixteen values the file-type field of a mode word can hold
TypeFields == {k * 4096 : k \in 0..15}

InitClassify ==
    /\ fs = InitFs
    /\ items = [i \in Ids |-> NoItem]
    /\ last = NoLast
    /\ steps = 0
    /\ h = InitH
    /\ gc = NoChildren
    /\ q \in {[NoQuery EXCEPT !.mode = t + perm, !.path = p] :
                t \in TypeFields, perm \in PermSet, p \in GetPaths}

\* return getItem(s.mode & constants.S_IFMT, path)
Classify ==
    /\ ~q.done
    /\ q' = [q EXCEPT !.done = TRUE, !.res = getItem(MaskIFMT(q.mode), q.path)]
    /\ UNCHANGED <<fs, items, last, steps, h, gc>>

NextClassify == Classify

SpecClassify == InitClassify /\ [][NextClassify]_vars

\* C10: for each of the seven file-type patterns getItem makes the entry
\* variant whose type tag is that pattern; for every other pattern it fails
\* with an error that names the failure, not with the bare Error.
C10_ClassifyOrUnknownType ==
    q.done =>
        IF MaskIFMT(q.mode) \in {S_IFBLK, S_IFCHR, S_IFDIR, S_IFIFO, S_IFREG, S_IFSOCK, S_IFLNK}
        THEN /\ q.res.err = "OK"
             /\ q.res.item.type = MaskIFMT(q.mode)
             /\ q.res.item.path = resolve(cwd, q.path)
        ELSE q.res.err \notin {"OK", "Error"}

====
